---- MODULE Spec2Model ----
(***************************************************************************)
(* State-machine model of src/Embedded System/main.cpp: the PPG sensor     *)
(* streaming firmware (sensor FIFO -> ring buffer -> chunk -> BLE          *)
(* packets), its command handler and its connection loop.                  *)
(*                                                                         *)
(* Program steps are sequenced by pc, which follows loop():                *)
(*   "wait"  BLE.central()                       (line 297)                *)
(*   "while" while (central.connected())         (line 301)                *)
(*   "cmd"   handleCommands()                    (line 302)                *)
(*   "poll"  pollSensor(), up to check()         (lines 165-168)           *)
(*   "read"  pollSensor(), the while loop        (lines 170-186)           *)
(*   "tx"    transmitChunk(), up to the for loop (lines 209-211)           *)
(*   "frame" transmitChunk(), the for loop       (lines 213-235)           *)
(*   "blepoll" BLE.poll()                        (line 305)                *)
(* The peer, the sensor and the clock act between any two program steps.   *)
(***************************************************************************)
EXTENDS Integers, Sequences, FiniteSets, TLC

(***************************************************************************)
(* Configuration, scaled down from lines 9-13 (200 Hz, 5 s, 0.20 s, 16)    *)
(* so that, as there, the buffer holds more than two chunks and its size   *)
(* is no multiple of the chunk size. CHUNK_SECONDS is in hundredths.       *)
(***************************************************************************)
SAMPLE_RATE == 5
BUFFER_HEADROOM_SECONDS == 1
CHUNK_SECONDS_x100 == 40
BATCH_SIZE == 1

\* Samples the sensor produces in one run (Spec), and chunks streamed in
\* the long streaming scenario (SpecStream); clock range.
MaxSamples == 7
MaxStreamChunks == 257
MaxTime == 1

\* Derived constants, lines 18-21.
BUFFER_SIZE == SAMPLE_RATE * BUFFER_HEADROOM_SECONDS
RAW_CHUNK_SIZE == (SAMPLE_RATE * CHUNK_SECONDS_x100 + 50) \div 100
CHUNK_SIZE == (RAW_CHUNK_SIZE \div BATCH_SIZE) * BATCH_SIZE
PACKET_SIZE == 1 + BATCH_SIZE * 8

\* Command bytes: 'S', 'P', and 0 for every other byte (also the
\* characteristic's initial value).
CMD_START == 83
CMD_PAUSE == 80
CommandBytes == {CMD_START, CMD_PAUSE, 0}

VARIABLES
  \* program state, lines 54-68
  seqNumber, irRingBuffer, redRingBuffer, writeIndex, readIndex, bufferCount,
  irChunk, redChunk, streamingStartTime, totalSamplesDuringStream,
  streaming, sensorConfigured,
  \* control: position in loop(), packet index p of transmitChunk,
  \* samples loaded by particleSensor.check() and not yet read
  pc, p, pending,
  \* value returned by the last of handleCommands, pollSensor (its
  \* samplesRead) and transmitChunk; command byte the last program step read
  ret, handled,
  \* collaborators: BLE link, command characteristic, sensor FIFO, millis()
  linkUp, advertising, cmdWritten, cmdValue, fifo, produced, now,
  \* outputs: Serial summary printed by the last program step, packets
  \* handed to dataChar.writeValue for the chunk in transmission
  serialOut, sentFrames,
  \* observers, per connection: samples accepted into the ring buffer,
  \* samples extracted in chunks, samples dropped, chunks transmitted,
  \* configureSensor calls, samples the sensor had produced when the
  \* connection began, samples left in the buffer at the last disconnect
  accepted, extracted, dropped, chunksSent, configCalls, producedAtConnect,
  leftover

progVars == <<seqNumber, irRingBuffer, redRingBuffer, writeIndex, readIndex,
              bufferCount, irChunk, redChunk, streamingStartTime,
              totalSamplesDuringStream, streaming, sensorConfigured>>
ringVars == <<irRingBuffer, redRingBuffer, writeIndex, readIndex, bufferCount>>
chunkVars == <<irChunk, redChunk>>
ctlVars == <<pc, p, pending, ret, handled>>
bleVars == <<linkUp, advertising, cmdWritten, cmdValue>>
sensorVars == <<fifo, produced>>
obsVars == <<accepted, extracted, dropped, chunksSent, configCalls,
             producedAtConnect, leftover>>
vars == <<progVars, ctlVars, bleVars, sensorVars, now, serialOut, sentFrames,
          obsVars>>

NoSummary == <<>>
NoCmd == <<>>

----------------------------------------------------------------------------
(* Pure parts of the code *)

\* a full buffer still takes one more sample (<= for <)
CanPush_Inclusive(count) == count <= BUFFER_SIZE

\* line 175: room for one more sample
CanPush(count) == count < BUFFER_SIZE

\* the index is advanced without the modulo
NextIndex_NoWrap(i) == i + 1

\* lines 178, 201: index advance modulo the capacity
NextIndex(i) == (i + 1) % BUFFER_SIZE

\* a chunk is extracted as soon as the buffer is not empty
CanExtract_NonEmpty(count) == count > 0

\* line 196: enough samples for one chunk
CanExtract(count) == count >= CHUNK_SIZE

\* lines 198-202: readIndex after n passes of the for loop
RECURSIVE Advance(_, _)
Advance(i, n) == IF n = 0 THEN i ELSE Advance(NextIndex(i), n - 1)

\* the read index is advanced before the entry is copied
ChunkOf_PreIncrement(ring, r) ==
  [i \in 0..(CHUNK_SIZE - 1) |-> ring[Advance(r, i + 1)]]

\* lines 198-200: entry i of the chunk is the ring entry at readIndex
\* after i passes
ChunkOf(ring, r) == [i \in 0..(CHUNK_SIZE - 1) |-> ring[Advance(r, i)]]

\* extractChunk takes one batch off the count instead of one chunk
CountAfterExtract_OneBatch(count) == count - BATCH_SIZE

\* line 203
CountAfterExtract(count) == count - CHUNK_SIZE

\* the sequence counter is wider than one byte
NextSeq_Wide(s) == s + 1

\* line 210: uint8_t increment
NextSeq(s) == (s + 1) % 256

\* the last byte repeats the shift by 8 of the byte before it
BigEndian_RepeatedShift(v) ==
  << (v \div 16777216) % 256, (v \div 65536) % 256,
     (v \div 256) % 256, (v \div 256) % 256 >>

\* lines 223-230: four big-endian bytes of a uint32_t
BigEndian(v) == << (v \div 16777216) % 256, (v \div 65536) % 256,
                   (v \div 256) % 256, v % 256 >>

\* lines 218-231: the payload of packet pk, samples pk*BATCH_SIZE + s
RECURSIVE Payload(_, _, _, _)
Payload(irC, redC, pk, s) ==
  IF s >= BATCH_SIZE THEN <<>>
  ELSE BigEndian(irC[pk * BATCH_SIZE + s]) \o BigEndian(redC[pk * BATCH_SIZE + s])
       \o Payload(irC, redC, pk, s + 1)

\* lines 214-231: packet[0] = seqNumber, then the payload
Packet(seq, irC, redC, pk) == <<seq>> \o Payload(irC, redC, pk, 0)

\* line 211
NumPackets == CHUNK_SIZE \div BATCH_SIZE

\* 'S' is accepted in any state
IsStart_Unguarded(cmd, isStreaming) == cmd = CMD_START

\* the sensor is polled in every state
PollEnabled_Always(isStreaming) == TRUE

\* line 165: pollSensor acts only while streaming
PollEnabled(isStreaming) == isStreaming

\* the counter counts only the samples that were buffered
CapturedAfter_BufferedOnly(total, buffered) ==
  IF buffered THEN total + 1 ELSE total

\* line 185: the counter after one sample was read, buffered or not
CapturedAfter(total, buffered) == total + 1

\* line 255
IsStart(cmd, isStreaming) == cmd = CMD_START /\ ~isStreaming

\* line 262
IsPause(cmd) == cmd = CMD_PAUSE

\* line 86: the summary is printed only when samples were captured
SummaryShown(total) == total # 0

\* lines 85-101: what printStreamingSummary prints (captured, elapsed ms,
\* chunks sent), or nothing
Summary ==
  IF SummaryShown(totalSamplesDuringStream)
  THEN <<totalSamplesDuringStream, now - streamingStartTime, seqNumber>>
  ELSE NoSummary

\* the (IR, Red) pair the sensor produces as its n-th sample
SampleOf(n) == <<66051 + n, 197121 + n>>

\* the pairs held by two parallel arrays, as a sequence
PairsOf(irC, redC) == [i \in 1..CHUNK_SIZE |-> <<irC[i - 1], redC[i - 1]>>]

----------------------------------------------------------------------------
Init ==
  /\ seqNumber = 0
  /\ irRingBuffer = [i \in 0..(BUFFER_SIZE - 1) |-> 0]
  /\ redRingBuffer = [i \in 0..(BUFFER_SIZE - 1) |-> 0]
  /\ writeIndex = 0 /\ readIndex = 0 /\ bufferCount = 0
  /\ irChunk = [i \in 0..(CHUNK_SIZE - 1) |-> 0]
  /\ redChunk = [i \in 0..(CHUNK_SIZE - 1) |-> 0]
  /\ streamingStartTime = 0
  /\ totalSamplesDuringStream = 0
  /\ streaming = FALSE
  /\ sensorConfigured = FALSE
  /\ pc = "wait" /\ p = 0 /\ pending = <<>>
  /\ ret = FALSE /\ handled = NoCmd
  /\ linkUp = FALSE /\ advertising = TRUE
  /\ cmdWritten = FALSE /\ cmdValue = 0
  /\ fifo = <<>> /\ produced = 0
  /\ now = 0
  /\ serialOut = NoSummary /\ sentFrames = <<>>
  /\ accepted = <<>> /\ extracted = <<>> /\ dropped = 0
  /\ chunksSent = 0 /\ configCalls = 0
  /\ producedAtConnect = 0 /\ leftover = 0

----------------------------------------------------------------------------
(* Collaborators *)

\* the central writes one byte to the command characteristic
PeerWrite(c) ==
  /\ linkUp
  /\ cmdWritten' = TRUE /\ cmdValue' = c
  /\ UNCHANGED <<progVars, ctlVars, linkUp, advertising, sensorVars, now,
                 serialOut, sentFrames, obsVars>>

\* the central disconnects
PeerDisconnect ==
  /\ linkUp
  /\ linkUp' = FALSE
  /\ UNCHANGED <<progVars, ctlVars, advertising, cmdWritten, cmdValue,
                 sensorVars, now, serialOut, sentFrames, obsVars>>

\* the configured sensor puts one sample in its FIFO
SensorSample ==
  /\ sensorConfigured
  /\ fifo' = Append(fifo, SampleOf(produced))
  /\ produced' = produced + 1
  /\ UNCHANGED <<progVars, ctlVars, bleVars, now, serialOut, sentFrames,
                 obsVars>>

\* millis() advances
Tick ==
  /\ now < MaxTime
  /\ now' = now + 1
  /\ UNCHANGED <<progVars, ctlVars, bleVars, sensorVars, serialOut,
                 sentFrames, obsVars>>

----------------------------------------------------------------------------
(* Program steps *)

\* the reset leaves bufferCount as it is
ResetStreamingState_KeepCount ==
  /\ streaming' = FALSE
  /\ seqNumber' = 0
  /\ writeIndex' = 0 /\ readIndex' = 0
  /\ totalSamplesDuringStream' = 0
  /\ UNCHANGED bufferCount

\* the reset leaves readIndex as it is
ResetStreamingState_KeepReadIndex ==
  /\ streaming' = FALSE
  /\ seqNumber' = 0
  /\ writeIndex' = 0 /\ bufferCount' = 0
  /\ totalSamplesDuringStream' = 0
  /\ UNCHANGED readIndex

\* lines 150-157
ResetStreamingState ==
  /\ streaming' = FALSE
  /\ seqNumber' = 0
  /\ writeIndex' = 0 /\ readIndex' = 0 /\ bufferCount' = 0
  /\ totalSamplesDuringStream' = 0

\* lines 297-299: a central connected; resetStreamingState
Connect ==
  /\ pc = "wait" /\ advertising /\ ~linkUp
  /\ linkUp' = TRUE /\ advertising' = FALSE
  /\ ResetStreamingState
  /\ pc' = "while"
  /\ serialOut' = NoSummary /\ handled' = NoCmd
  /\ accepted' = <<>> /\ extracted' = <<>> /\ dropped' = 0
  /\ chunksSent' = 0 /\ configCalls' = 0 /\ sentFrames' = <<>>
  /\ producedAtConnect' = produced
  /\ UNCHANGED leftover
  /\ UNCHANGED <<irRingBuffer, redRingBuffer, chunkVars, streamingStartTime,
                 sensorConfigured, p, pending, ret, cmdWritten, cmdValue,
                 sensorVars, now>>

\* line 301: the central is still connected
LoopIterate ==
  /\ pc = "while" /\ linkUp
  /\ pc' = "cmd"
  /\ serialOut' = NoSummary /\ handled' = NoCmd
  /\ UNCHANGED <<progVars, p, pending, ret, bleVars, sensorVars, now,
                 sentFrames, obsVars>>

\* setup and clearFIFO, but the flag is not set
ConfigureSensor_NoFlag ==
  /\ UNCHANGED sensorConfigured
  /\ fifo' = <<>>
  /\ configCalls' = configCalls + 1

\* lines 117-124: setup, clearFIFO, sensorConfigured = true
ConfigureSensor ==
  /\ sensorConfigured' = TRUE
  /\ fifo' = <<>>
  /\ configCalls' = configCalls + 1

\* lines 249-269
HandleCommands ==
  /\ pc = "cmd"
  /\ pc' = "poll"
  /\ cmdWritten' = FALSE
  /\ IF ~cmdWritten
     THEN /\ ret' = FALSE
          /\ handled' = NoCmd
          /\ serialOut' = NoSummary
          /\ UNCHANGED <<streaming, streamingStartTime, sensorConfigured,
                         fifo, configCalls>>
     ELSE /\ handled' = <<cmdValue>>
          /\ IF IsStart(cmdValue, streaming)
             THEN /\ IF ~sensorConfigured
                     THEN ConfigureSensor
                     ELSE UNCHANGED <<sensorConfigured, fifo, configCalls>>
                  /\ streaming' = TRUE
                  /\ streamingStartTime' = now
                  /\ serialOut' = NoSummary
                  /\ ret' = TRUE
             ELSE IF IsPause(cmdValue)
             THEN /\ streaming' = FALSE
                  /\ serialOut' = Summary
                  /\ ret' = TRUE
                  /\ UNCHANGED <<streamingStartTime, sensorConfigured, fifo,
                                 configCalls>>
             ELSE /\ serialOut' = NoSummary
                  /\ ret' = FALSE
                  /\ UNCHANGED <<streaming, streamingStartTime,
                                 sensorConfigured, fifo, configCalls>>
  /\ UNCHANGED <<seqNumber, ringVars, chunkVars, totalSamplesDuringStream,
                 p, pending, linkUp, advertising, cmdValue, produced, now,
                 sentFrames, accepted, extracted, dropped, chunksSent,
                 producedAtConnect, leftover>>

\* lines 163-168: not streaming: return 0; else check() loads the FIFO
PollSensor ==
  /\ pc = "poll"
  /\ IF ~PollEnabled(streaming)
     THEN /\ pc' = "tx"
          /\ UNCHANGED <<pending, fifo>>
     ELSE /\ pending' = fifo
          /\ fifo' = <<>>
          /\ pc' = IF fifo = <<>> THEN "tx" ELSE "read"
  /\ ret' = 0
  /\ serialOut' = NoSummary /\ handled' = NoCmd
  /\ UNCHANGED <<progVars, p, bleVars, produced, now, sentFrames, obsVars>>

\* lines 170-186: one pass of the while loop
ReadSample ==
  /\ pc = "read" /\ pending # <<>>
  /\ LET ir == Head(pending)[1]
         red == Head(pending)[2]
     IN IF CanPush(bufferCount)
        THEN /\ irRingBuffer' = [irRingBuffer EXCEPT ![writeIndex] = ir]
             /\ redRingBuffer' = [redRingBuffer EXCEPT ![writeIndex] = red]
             /\ writeIndex' = NextIndex(writeIndex)
             /\ bufferCount' = bufferCount + 1
             /\ accepted' = Append(accepted, <<ir, red>>)
             /\ UNCHANGED dropped
        ELSE /\ dropped' = dropped + 1
             /\ UNCHANGED <<irRingBuffer, redRingBuffer, writeIndex,
                            bufferCount, accepted>>
  /\ ret' = ret + 1
  /\ totalSamplesDuringStream' =
       CapturedAfter(totalSamplesDuringStream, CanPush(bufferCount))
  /\ pending' = Tail(pending)
  /\ pc' = IF Tail(pending) = <<>> THEN "tx" ELSE "read"
  /\ serialOut' = NoSummary /\ handled' = NoCmd
  /\ UNCHANGED <<seqNumber, readIndex, chunkVars, streamingStartTime,
                 streaming, sensorConfigured, p, bleVars, sensorVars, now,
                 sentFrames, extracted, chunksSent, configCalls,
                 producedAtConnect, leftover>>

\* lines 207-211 with extractChunk, lines 194-205
TransmitChunk ==
  /\ pc = "tx"
  /\ IF ~CanExtract(bufferCount)
     THEN /\ ret' = FALSE
          /\ pc' = "blepoll"
          /\ UNCHANGED <<seqNumber, readIndex, bufferCount, chunkVars, p,
                         sentFrames, extracted, chunksSent>>
     ELSE /\ irChunk' = ChunkOf(irRingBuffer, readIndex)
          /\ redChunk' = ChunkOf(redRingBuffer, readIndex)
          /\ readIndex' = Advance(readIndex, CHUNK_SIZE)
          /\ bufferCount' = CountAfterExtract(bufferCount)
          /\ seqNumber' = NextSeq(seqNumber)
          /\ p' = 0
          /\ ret' = TRUE
          /\ pc' = IF 0 < NumPackets THEN "frame" ELSE "blepoll"
          /\ sentFrames' = <<>>
          /\ extracted' = extracted \o PairsOf(irChunk', redChunk')
          /\ chunksSent' = chunksSent + 1
  /\ serialOut' = NoSummary /\ handled' = NoCmd
  /\ UNCHANGED <<irRingBuffer, redRingBuffer, writeIndex, streamingStartTime,
                 totalSamplesDuringStream, streaming, sensorConfigured,
                 pending, bleVars, sensorVars, now, accepted, dropped,
                 configCalls, producedAtConnect, leftover>>

\* lines 213-235: one pass of the for loop: build packet p, writeValue, delay
SendFrame ==
  /\ pc = "frame"
  /\ sentFrames' = Append(sentFrames, Packet(seqNumber, irChunk, redChunk, p))
  /\ p' = p + 1
  /\ pc' = IF p + 1 < NumPackets THEN "frame" ELSE "blepoll"
  /\ serialOut' = NoSummary /\ handled' = NoCmd
  /\ UNCHANGED <<progVars, pending, ret, bleVars, sensorVars, now, obsVars>>

\* line 305
BlePoll ==
  /\ pc = "blepoll"
  /\ pc' = "while"
  /\ serialOut' = NoSummary /\ handled' = NoCmd
  /\ UNCHANGED <<progVars, p, pending, ret, bleVars, sensorVars, now,
                 sentFrames, obsVars>>

\* the sensor is left as it is
ShutdownSensor_Skip == UNCHANGED sensorConfigured

\* lines 126-133
ShutdownSensor == sensorConfigured' = FALSE

\* lines 301, 307: the central is gone; handleDisconnect (lines 275-282):
\* printStreamingSummary, resetStreamingState, shutdownSensor, advertise
HandleDisconnect ==
  /\ pc = "while" /\ ~linkUp
  /\ serialOut' = Summary /\ handled' = NoCmd
  /\ ResetStreamingState
  /\ ShutdownSensor
  /\ advertising' = TRUE
  /\ pc' = "wait"
  /\ leftover' = bufferCount
  /\ UNCHANGED <<irRingBuffer, redRingBuffer, chunkVars, streamingStartTime,
                 p, pending, ret, linkUp, cmdWritten, cmdValue, sensorVars,
                 now, sentFrames, accepted, extracted, dropped, chunksSent,
                 configCalls, producedAtConnect>>

----------------------------------------------------------------------------
Program ==
  \/ Connect
  \/ LoopIterate
  \/ HandleCommands
  \/ PollSensor
  \/ ReadSample
  \/ TransmitChunk
  \/ SendFrame
  \/ BlePoll
  \/ HandleDisconnect

\* Any run: the central writes any byte and disconnects at any time, the
\* sensor produces up to MaxSamples samples, the clock ticks up to MaxTime.
Next ==
  \/ Program
  \/ \E c \in CommandBytes : PeerWrite(c)
  \/ PeerDisconnect
  \/ (produced < MaxSamples /\ SensorSample)
  \/ Tick

Spec == Init /\ [][Next]_vars

\* Long streaming session: the central connects and starts streaming, the
\* sensor keeps at most one chunk in its FIFO and produces MaxStreamChunks
\* chunks of samples; then the central may pause, and may disconnect.
StreamOver == produced = CHUNK_SIZE * MaxStreamChunks

StreamNext ==
  \/ Program
  \/ (~cmdWritten /\ ~streaming /\ ~StreamOver /\ PeerWrite(CMD_START))
  \/ (~cmdWritten /\ streaming /\ StreamOver /\ PeerWrite(CMD_PAUSE))
  \/ (StreamOver /\ PeerDisconnect)
  \/ (~StreamOver /\ Len(fifo) < CHUNK_SIZE /\ SensorSample)

SpecStream == Init /\ [][StreamNext]_vars

\* Drain scenario: one connection that is never closed; the central writes
\* 'S' once, the sensor produces at most BUFFER_SIZE samples at any moments
\* and then nothing more. loop() keeps running: the program is never
\* blocked, so its next step is always taken.
DrainProgram ==
  \/ Connect
  \/ LoopIterate
  \/ HandleCommands
  \/ PollSensor
  \/ ReadSample
  \/ TransmitChunk
  \/ SendFrame
  \/ BlePoll

DrainNext ==
  \/ DrainProgram
  \/ (~cmdWritten /\ ~streaming /\ PeerWrite(CMD_START))
  \/ (produced < BUFFER_SIZE /\ SensorSample)

\* every program step moves the program's position
position == <<pc, p, pending>>

SpecDrain == Init /\ [][DrainNext]_vars /\ WF_position(DrainProgram)

\* Encoding of one chunk. The run starts where pollSensor has just filled
\* an empty buffer with CHUNK_SIZE samples in the first streaming pass of
\* a connection, the samples being any values of SampleValues (byte and
\* word boundaries of a uint32_t, up to the largest integer TLC holds),
\* and goes through transmitChunk.
SampleValues ==
  {0, 1, 255, 256, 65535, 65536, 16777216, 16909060, 2147483647}

CodecInit ==
  \E irs \in [0..(CHUNK_SIZE - 1) -> SampleValues],
     reds \in [0..(CHUNK_SIZE - 1) -> SampleValues] :
    /\ seqNumber = 0
    /\ irRingBuffer = [i \in 0..(BUFFER_SIZE - 1) |->
                         IF i < CHUNK_SIZE THEN irs[i] ELSE 0]
    /\ redRingBuffer = [i \in 0..(BUFFER_SIZE - 1) |->
                          IF i < CHUNK_SIZE THEN reds[i] ELSE 0]
    /\ writeIndex = Advance(0, CHUNK_SIZE) /\ readIndex = 0
    /\ bufferCount = CHUNK_SIZE
    /\ irChunk = [i \in 0..(CHUNK_SIZE - 1) |-> 0]
    /\ redChunk = [i \in 0..(CHUNK_SIZE - 1) |-> 0]
    /\ streamingStartTime = 0
    /\ totalSamplesDuringStream = CHUNK_SIZE
    /\ streaming = TRUE
    /\ sensorConfigured = TRUE
    /\ pc = "tx" /\ p = 0 /\ pending = <<>>
    /\ ret = CHUNK_SIZE /\ handled = NoCmd
    /\ linkUp = TRUE /\ advertising = FALSE
    /\ cmdWritten = FALSE /\ cmdValue = CMD_START
    /\ fifo = <<>> /\ produced = CHUNK_SIZE
    /\ now = 0
    /\ serialOut = NoSummary /\ sentFrames = <<>>
    /\ accepted = PairsOf(irs, reds) /\ extracted = <<>> /\ dropped = 0
    /\ chunksSent = 0 /\ configCalls = 1
    /\ producedAtConnect = 0 /\ leftover = 0

CodecNext ==
  \/ TransmitChunk
  \/ SendFrame

SpecCodec == CodecInit /\ [][CodecNext]_vars

----------------------------------------------------------------------------
(* Properties *)

IsPrefix(a, b) == Len(a) <= Len(b) /\ SubSeq(b, 1, Len(a)) = a

\* the step is handleCommands reading a command byte c that was written
ReadsCommand(c) == pc = "cmd" /\ pc' = "poll" /\ cmdWritten /\ cmdValue = c

\* C1: in every reachable state 0 <= bufferCount <= BUFFER_SIZE and
\* writeIndex and readIndex lie in [0, BUFFER_SIZE); bufferCount never
\* goes below zero.
C1_BufferBounds ==
  /\ bufferCount \in 0..BUFFER_SIZE
  /\ writeIndex \in 0..(BUFFER_SIZE - 1)
  /\ readIndex \in 0..(BUFFER_SIZE - 1)

\* C1 witness: the buffer overflowed, chunks were extracted since, and
\* less than a chunk is left.
C1_Witness ==
  /\ dropped > 0 /\ chunksSent > 0
  /\ bufferCount < CHUNK_SIZE /\ pc = "blepoll"

\* C2: within one connection the concatenation of the extracted chunks is
\* a prefix of the samples accepted into the ring buffer, in order.
C2_FifoOrder == IsPrefix(extracted, accepted)

\* C2 witness: more samples than the buffer holds were extracted, so an
\* extraction crossed the end of the arrays.
C2_Witness == Len(extracted) > BUFFER_SIZE /\ C2_FifoOrder

\* C3: a sample read while bufferCount = BUFFER_SIZE is dropped: the ring
\* arrays, writeIndex, readIndex and bufferCount are unchanged and nothing
\* is added to the accepted samples.
C3_DropNewest ==
  [][(pc = "read" /\ pending' # pending /\ bufferCount = BUFFER_SIZE)
       => (UNCHANGED ringVars /\ accepted' = accepted
           /\ dropped' = dropped + 1)]_vars

\* C3 witness: a sample was just dropped on a full buffer.
C3_Witness ==
  /\ dropped > 0 /\ bufferCount = BUFFER_SIZE
  /\ pc \in {"read", "tx"} /\ ret > BUFFER_SIZE

\* C4: transmitChunk with bufferCount < CHUNK_SIZE returns false, sends no
\* frame and leaves ring buffer, readIndex, bufferCount and seqNumber
\* unchanged; otherwise exactly CHUNK_SIZE samples are removed.
C4_AllOrNothing ==
  [][(pc = "tx" /\ pc' # "tx")
       => IF bufferCount < CHUNK_SIZE
          THEN /\ ret' = FALSE /\ pc' = "blepoll"
               /\ UNCHANGED <<ringVars, seqNumber, sentFrames, extracted,
                              chunksSent>>
          ELSE /\ ret' = TRUE
               /\ bufferCount' = bufferCount - CHUNK_SIZE
               /\ Len(extracted') = Len(extracted) + CHUNK_SIZE
               /\ UNCHANGED <<irRingBuffer, redRingBuffer, writeIndex>>]_vars

\* C4 witness: after a chunk was sent, transmitChunk just returned false
\* with a remainder in the buffer.
C4_Witness ==
  /\ pc = "blepoll" /\ ret = FALSE
  /\ bufferCount > 0 /\ bufferCount < CHUNK_SIZE /\ chunksSent > 0

\* C5: within one connection the k-th chunk carries sequence byte
\* k mod 256: seqNumber is incremented once per chunk, every frame of the
\* chunk carries that byte, and a complete chunk has
\* CHUNK_SIZE / BATCH_SIZE frames.
C5_SequenceBytes ==
  (pc # "wait" /\ chunksSent > 0) =>
    /\ seqNumber = chunksSent % 256
    /\ \A i \in 1..Len(sentFrames) : sentFrames[i][1] = chunksSent % 256
    /\ Len(sentFrames) = IF pc = "frame" THEN p ELSE CHUNK_SIZE \div BATCH_SIZE

\* C5 witness: the 256th chunk of a connection was sent in full, with
\* sequence byte 0.
C5_Witness ==
  /\ chunksSent = 256 /\ pc = "blepoll"
  /\ Len(sentFrames) = CHUNK_SIZE \div BATCH_SIZE
  /\ sentFrames[1][1] = 0

\* C6: while the state is Idle within a connection no frame is submitted
\* and no chunk is removed from the buffer.
C6_IdleTransmitsNothing ==
  [][(~streaming /\ pc # "wait")
       => (sentFrames' = sentFrames /\ extracted' = extracted)]_vars

\* C7: every Idle -> Streaming transition on 'S' resets
\* totalSamplesDuringStream to zero and records the session start time.
C7_StartResetsCounter ==
  [][(ReadsCommand(CMD_START) /\ ~streaming)
       => (streaming' /\ totalSamplesDuringStream' = 0
           /\ streamingStartTime' = now)]_vars

\* C8: 'P' read while Idle is a no-op: no state variable changes and no
\* summary is emitted.
C8_PauseWhileIdleNoOp ==
  [][(ReadsCommand(CMD_PAUSE) /\ ~streaming)
       => (UNCHANGED progVars /\ serialOut' = NoSummary)]_vars

\* C9: every Streaming -> Idle transition on 'P' emits a session summary.
C9_PauseAlwaysSummary ==
  [][(ReadsCommand(CMD_PAUSE) /\ streaming)
       => (~streaming' /\ serialOut' # NoSummary)]_vars

\* C10: 'S' read while Streaming, and any byte other than 'S' and 'P',
\* changes nothing: streaming, start time, sample counter,
\* sensorConfigured, buffer and sequence counter are unchanged, the sensor
\* is not configured again and no summary is emitted.
C10_IgnoredCommand ==
  [][(\/ ReadsCommand(CMD_START) /\ streaming
      \/ ReadsCommand(0))
       => (/\ UNCHANGED <<progVars, fifo, configCalls>>
           /\ serialOut' = NoSummary /\ ret' = FALSE)]_vars

\* C10 witness: a second 'S' was just read in a session that had already
\* captured samples and started earlier.
C10_Witness ==
  /\ pc = "poll" /\ handled = <<CMD_START>> /\ ret = FALSE
  /\ streaming /\ totalSamplesDuringStream > 0
  /\ streamingStartTime < now

\* the state resetStreamingState establishes
CleanState ==
  /\ ~streaming /\ seqNumber = 0
  /\ writeIndex = 0 /\ readIndex = 0 /\ bufferCount = 0
  /\ totalSamplesDuringStream = 0

\* the samples the sensor produced since the connection began
AcquiredInConnection ==
  {SampleOf(n) : n \in producedAtConnect..(produced - 1)}

\* C11: no state leaks across connections: after every disconnect and when
\* the first loop pass of a connection begins the state is Idle with
\* seqNumber, indices, count and sample counter zero; the first chunk of a
\* connection has sequence byte 1, and every extracted sample was acquired
\* in that connection.
C11_NoLeak ==
  /\ [](pc = "wait" => CleanState)
  /\ [][(pc = "wait" /\ pc' = "while") => CleanState']_vars
  /\ [](pc # "wait" =>
          /\ \A i \in 1..Len(extracted) : extracted[i] \in AcquiredInConnection
          /\ chunksSent = 1 =>
               \A i \in 1..Len(sentFrames) : sentFrames[i][1] = 1)

\* C11 witness: the previous connection ended with a remainder smaller
\* than a chunk in the buffer, and the first chunk of this connection was
\* sent in full.
C11_Witness ==
  /\ pc = "blepoll" /\ chunksSent = 1
  /\ leftover > 0 /\ leftover < CHUNK_SIZE
  /\ producedAtConnect > 0
  /\ Len(sentFrames) = CHUNK_SIZE \div BATCH_SIZE
  /\ sentFrames[1][1] = 1

\* C12: once the central has disconnected no further frame is submitted
\* to the transport for that connection.
C12_NoFrameAfterDisconnect ==
  [][(~linkUp /\ pc # "wait") => Len(sentFrames') <= Len(sentFrames)]_vars

\* C13: within a connection the captured-sample counter equals the number
\* of samples accepted into the buffer plus the number dropped on a full
\* buffer: every sample read from the sensor is counted once.
C13_CountsEveryRead ==
  pc # "wait" => totalSamplesDuringStream = Len(accepted) + dropped

\* a full buffer has dropped samples and chunks have gone out since
C13_Witness ==
  /\ pc # "wait" /\ streaming
  /\ dropped > 0 /\ chunksSent > 0
  /\ totalSamplesDuringStream = Len(accepted) + dropped
  /\ totalSamplesDuringStream > bufferCount + Len(extracted)

\* C14: pollSensor called while not streaming returns 0, takes no sample
\* from the sensor and leaves the ring buffer, its indices and count and
\* the captured-sample counter unchanged.
C14_PollIdleNoOp ==
  [][(pc = "poll" /\ ~streaming /\ pc' # "poll")
       => /\ pc' = "tx" /\ ret' = 0
          /\ UNCHANGED <<ringVars, totalSamplesDuringStream, fifo, pending,
                         accepted, dropped>>]_vars

\* pollSensor has returned 0 while Idle with samples waiting in the sensor
C14_Witness ==
  /\ pc = "tx" /\ ret = 0
  /\ ~streaming /\ sensorConfigured /\ fifo # <<>>
  /\ chunksSent > 0

\* C15: in the drain scenario (connect, 'S', N <= BUFFER_SIZE samples and
\* then none) the loop eventually reaches, and stays in, a state where
\* floor(N / CHUNK_SIZE) chunks have been transmitted, nothing was dropped
\* and bufferCount = N mod CHUNK_SIZE; bufferCount is never negative.
C15_Drain ==
  /\ [](bufferCount >= 0)
  /\ <>[](/\ dropped = 0
          /\ chunksSent = produced \div CHUNK_SIZE
          /\ Len(sentFrames) = IF chunksSent = 0 THEN 0 ELSE NumPackets
          /\ bufferCount = produced % CHUNK_SIZE
          /\ fifo = <<>> /\ pending = <<>>)

\* all BUFFER_SIZE samples were acquired and every full chunk has gone out
C15_Witness ==
  /\ streaming /\ pc = "blepoll"
  /\ produced = BUFFER_SIZE /\ Len(accepted) = BUFFER_SIZE
  /\ chunksSent = BUFFER_SIZE \div CHUNK_SIZE
  /\ bufferCount = BUFFER_SIZE % CHUNK_SIZE

\* the receiver's reading of four big-endian bytes starting at b[at]
FromBigEndian(b, at) ==
  ((b[at] * 256 + b[at + 1]) * 256 + b[at + 2]) * 256 + b[at + 3]

\* the BATCH_SIZE (IR, Red) pairs a receiver reads from bytes 1.. of a frame
DecodeFrame(f) ==
  [s \in 1..BATCH_SIZE |->
     <<FromBigEndian(f, 2 + 8 * (s - 1)), FromBigEndian(f, 6 + 8 * (s - 1))>>]

\* the pairs read from a sequence of frames, in emission order
RECURSIVE DecodeFrames(_)
DecodeFrames(fs) ==
  IF fs = <<>> THEN <<>>
  ELSE DecodeFrame(Head(fs)) \o DecodeFrames(Tail(fs))

C17_ReadyAfterDisconnect ==
  /\ pc = "wait" =>
       /\ ~sensorConfigured /\ ~streaming
       /\ advertising /\ ~linkUp
       /\ ENABLED Connect
  /\ pc # "wait" => (~advertising /\ ~ENABLED Connect)

\* a connection that streamed has ended with samples still buffered
C17_Witness ==
  /\ pc = "wait" /\ advertising /\ ~sensorConfigured
  /\ configCalls > 0 /\ chunksSent > 0 /\ leftover > 0
  /\ serialOut # NoSummary

\* C18: the chunks-sent figure of a session summary equals the number of
\* chunks transmitted in the connection, for any number of chunks.
C18_SummaryChunks ==
  serialOut # NoSummary => serialOut[3] = chunksSent

\* the samples in the bufferCount slots from readIndex on, oldest first
Unread ==
  [i \in 1..bufferCount |->
     <<irRingBuffer[Advance(readIndex, i - 1)],
       redRingBuffer[Advance(readIndex, i - 1)]>>]

\* C19: in every reachable state writeIndex = (readIndex + bufferCount)
\* mod BUFFER_SIZE, and the bufferCount slots from readIndex on hold the
\* samples accepted and not yet extracted, in order.
C19_IndexConsistency ==
  /\ writeIndex = (readIndex + bufferCount) % BUFFER_SIZE
  /\ pc # "wait" =>
       Unread = SubSeq(accepted, Len(extracted) + 1, Len(accepted))

\* the unread samples wrap around the end of the array
C19_Witness ==
  /\ pc # "wait" /\ bufferCount >= CHUNK_SIZE
  /\ writeIndex < readIndex /\ writeIndex > 0
  /\ Unread = SubSeq(accepted, Len(extracted) + 1, Len(accepted))
  /\ producedAtConnect > 0

\* C20: in every reachable state streaming implies sensorConfigured, and
\* configureSensor runs at most once in a connection, whatever sequence
\* of 'S' and 'P' commands is handled.
C20_ConfiguredWhileStreaming ==
  /\ streaming => sensorConfigured
  /\ configCalls <= 1
  /\ (pc # "wait" /\ sensorConfigured) => configCalls = 1

\* a second 'S' of the connection, after a pause, has just been handled
C20_Witness ==
  /\ pc = "poll" /\ handled = <<CMD_START>> /\ ret = TRUE /\ streaming
  /\ configCalls = 1 /\ sensorConfigured
  /\ totalSamplesDuringStream > 0 /\ chunksSent > 0

====
